---- MODULE Spec2Model ----
(***************************************************************************)
(* Model of blackjack-event-bot.js: a process that subscribes to the       *)
(* Deposit and WithdrawalProcessed events of a contract and mirrors the    *)
(* balances into a MongoDB collection of User documents.                   *)
(*                                                                         *)
(* Every call of handleDeposit / handleWithdrawalProcessed is an async     *)
(* function started by a listener without being awaited, so any number of  *)
(* them are in flight at once.  A handler is cut at its awaits: the store  *)
(* executes each issued operation atomically at some later moment, in any  *)
(* order relative to the operations of the other handlers.                 *)
(***************************************************************************)
EXTENDS Integers, Sequences, FiniteSets

\* ------------------------------------------------------------------ bounds
\* Number of event deliveries (listener invocations) in one run.
MaxEvents == 3

\* ------------------------------------------------------------------ inputs
\* Addresses as the event source reports them (checksum case or lower case).
Addresses == {"0xABC", "0xabc", "0xdef"}

\* Event amounts in wei (uint256 > 0).
Amounts == {40, 100}

Kinds == {"Deposit", "WithdrawalProcessed"}

\* No document / no value.
Null == <<>>

\* --------------------------------------------------------- pure functions
\* Mutant of the normalisation: the address is used as delivered.
toLowerCaseOmitted(a) == a

\* String.prototype.toLowerCase on the addresses above.
toLowerCase(a) ==
  CASE a = "0xABC" -> "0xabc"
    [] OTHER -> a

Accounts == {toLowerCase(a) : a \in Addresses}

DigitChars == <<"0", "1", "2", "3", "4", "5", "6", "7", "8", "9">>

DigitValue(c) == (CHOOSE k \in 1..10 : DigitChars[k] = c) - 1

RECURSIVE NatToString(_)
NatToString(n) ==
  IF n < 10 THEN <<DigitChars[n + 1]>>
  ELSE Append(NatToString(n \div 10), DigitChars[(n % 10) + 1])

\* BigNumber.prototype.toString: decimal digits, "-" first when negative.
BigNumberToString(n) ==
  IF n < 0 THEN <<"-">> \o NatToString(0 - n) ELSE NatToString(n)

\* parseWeiToString(weiAmount): weiAmount.toString().
parseWeiToString(weiAmount) == BigNumberToString(weiAmount)

RECURSIVE ParseDigits(_)
ParseDigits(s) ==
  IF s = <<>> THEN 0
  ELSE ParseDigits(SubSeq(s, 1, Len(s) - 1)) * 10 + DigitValue(s[Len(s)])

\* ethers.BigNumber.from(decimal string).
BigNumberFrom(s) ==
  IF s # <<>> /\ Head(s) = "-" THEN 0 - ParseDigits(Tail(s)) ELSE ParseDigits(s)

\* Mutants of the comparison: inverted, and "less than or equal".
InsufficientBalanceInverted(currentBalance, withdrawalAmount) ==
  currentBalance > withdrawalAmount

InsufficientBalanceLte(currentBalance, withdrawalAmount) ==
  currentBalance <= withdrawalAmount

\* currentBalance.lt(withdrawalAmount)
InsufficientBalance(currentBalance, withdrawalAmount) ==
  currentBalance < withdrawalAmount

\* Mutant of the subtraction: operands swapped.
NewBalanceSwapped(currentBalance, withdrawalAmount) ==
  withdrawalAmount - currentBalance

\* currentBalance.sub(withdrawalAmount)
NewBalance(currentBalance, withdrawalAmount) ==
  currentBalance - withdrawalAmount

\* Mutant of the null check: the check is missing.
UserNotFoundUnchecked(user) == FALSE

\* !user
UserNotFound(user) == user = Null

\* User.findOne({address}): the document's balance, or Null.
FindOne(st, address) == st[address]

\* Mutant of the update: $inc of the balance instead of a set.
FindOneAndUpdateInc(st, address, balance) ==
  [st EXCEPT ![address] =
     BigNumberToString(BigNumberFrom(st[address]) + BigNumberFrom(balance))]

\* Mutant of the upsert: without upsert, an absent document is not inserted.
FindOneAndUpdateNoUpsert(st, address, balance) ==
  IF st[address] = <<>> THEN st ELSE [st EXCEPT ![address] = balance]

\* User.findOneAndUpdate({address}, {balance}, {upsert: true, new: true}):
\* sets the balance of the matching document, inserting it when absent.
FindOneAndUpdate(st, address, balance) == [st EXCEPT ![address] = balance]

\* Mutants of the save: an update without a filter writes every document;
\* a save that removes the document of an emptied account.
SaveUserUnfiltered(st, address, balance) ==
  [a \in DOMAIN st |-> IF st[a] # <<>> THEN balance ELSE st[a]]

SaveUserRemovesEmpty(st, address, balance) ==
  IF balance = <<"0">> THEN [st EXCEPT ![address] = <<>>]
  ELSE [st EXCEPT ![address] = balance]

\* user.save() of a loaded document whose balance was assigned.
SaveUser(st, address, balance) == [st EXCEPT ![address] = balance]

\* ------------------------------------------------------------------ state
VARIABLES
  store,       \* the User collection: address -> balance string, or Null
  handlers,    \* every handler invocation so far, in delivery order
  main,        \* position of startBot
  listeners,   \* event kinds with a registered contract.on listener
  shutdown,    \* position of the SIGINT handler
  exitCode     \* -1 while the process lives, else the code passed to process.exit

vars == <<store, handlers, main, listeners, shutdown, exitCode>>

Alive == exitCode = -1

HandlerIds == 1..Len(handlers)

Key(i) == toLowerCase(handlers[i].user)

InFlight(i) == handlers[i].pc # "done"

\* The handler returns: its locals are gone, its outcome is what it logged.
Finish(i, outcome) ==
  handlers' = [handlers EXCEPT ![i].pc = "done", ![i].outcome = outcome,
                               ![i].read = Null, ![i].write = Null]

\* ------------------------------------------------------------------- Init
Init ==
  /\ store = [a \in Addresses \cup Accounts |-> Null]
  /\ handlers = <<>>
  /\ main = "connectMongoDB"
  /\ listeners = {}
  /\ shutdown = "idle"
  /\ exitCode = -1

\* --------------------------------------------------------------- startBot
\* await connectMongoDB(): the file binds connectDB only; the name is looked
\* up in the global scope, which the modules the file requires populate.
\* Bound and resolving, the start continues with provider.getNetwork().
ConnectMongoDBOk ==
  /\ Alive /\ main = "connectMongoDB"
  /\ main' = "getNetwork"
  /\ UNCHANGED <<store, handlers, listeners, shutdown, exitCode>>

\* process.exit(code): the process and everything in its memory is gone; the
\* store, a separate server, keeps its documents.
Exit(code) ==
  /\ exitCode' = code
  /\ handlers' = <<>>
  /\ listeners' = {}
  /\ UNCHANGED store

\* Bound and rejecting (the store cannot be reached): caught, process.exit(1).
ConnectMongoDBFails ==
  /\ Alive /\ main = "connectMongoDB"
  /\ main' = "storeFailed"
  /\ Exit(1)
  /\ UNCHANGED shutdown

\* Unbound, as the file leaves it: the call throws a ReferenceError before
\* any connection is tried; caught, process.exit(1).
ConnectMongoDBUnbound ==
  /\ Alive /\ main = "connectMongoDB"
  /\ main' = "referenceError"
  /\ Exit(1)
  /\ UNCHANGED shutdown

\* getNetwork resolves; setupEventListeners() registers both listeners.
setupEventListeners ==
  /\ Alive /\ main = "getNetwork"
  /\ main' = "running"
  /\ listeners' = Kinds
  /\ UNCHANGED <<store, handlers, shutdown, exitCode>>

\* Mutant of the failed start: the catch logs and does not exit.
GetNetworkFailsLogged ==
  /\ Alive /\ main = "getNetwork"
  /\ main' = "networkFailed"
  /\ UNCHANGED <<store, handlers, listeners, shutdown, exitCode>>

\* getNetwork rejects: caught, process.exit(1).
GetNetworkFails ==
  /\ Alive /\ main = "getNetwork"
  /\ main' = "networkFailed"
  /\ Exit(1)
  /\ UNCHANGED shutdown

\* ----------------------------------------------------------------- SIGINT
\* The handler calls mongoose.connection.close() and awaits it.
Sigint ==
  /\ Alive /\ shutdown = "idle"
  /\ shutdown' = "closing"
  /\ UNCHANGED <<store, handlers, main, listeners, exitCode>>

\* The close resolved: process.exit(0).
SigintExit ==
  /\ Alive /\ shutdown = "closing"
  /\ shutdown' = "closed"
  /\ Exit(0)
  /\ UNCHANGED main

\* -------------------------------------------------------------- listeners
\* The source gives every event it emits an identifier of its own (the log
\* position of the event); a redelivery carries the identifier again.
NextEventId == Len(handlers) + 1

\* The synchronous start of a handler, up to its first await.
Start(kind, user, amount, eventId) ==
  [kind |-> kind, user |-> user, amount |-> amount, eventId |-> eventId,
   pc |-> IF kind = "Deposit" THEN "findOneAndUpdate" ELSE "findOne",
   read |-> Null, write |-> Null, outcome |-> "none"]

\* The event source emits a new event; the listener starts its handler.
Deliver ==
  /\ Alive /\ Len(handlers) < MaxEvents
  /\ \E kind \in listeners, user \in Addresses, amount \in Amounts :
       handlers' = Append(handlers, Start(kind, user, amount, NextEventId))
  /\ UNCHANGED <<store, main, listeners, shutdown, exitCode>>

\* At-least-once delivery: an event delivered before is delivered again.
Redeliver ==
  /\ Alive /\ Len(handlers) < MaxEvents
  /\ \E j \in HandlerIds :
       /\ handlers[j].kind \in listeners
       /\ handlers' = Append(handlers,
            Start(handlers[j].kind, handlers[j].user, handlers[j].amount,
                  handlers[j].eventId))
  /\ UNCHANGED <<store, main, listeners, shutdown, exitCode>>

\* ---------------------------------------------------------- handleDeposit
handleDepositUpdate(i) ==
  /\ Alive /\ handlers[i].pc = "findOneAndUpdate"
  /\ store' = FindOneAndUpdate(store, Key(i), parseWeiToString(handlers[i].amount))
  /\ Finish(i, "Applied")
  /\ UNCHANGED <<main, listeners, shutdown, exitCode>>

\* Mutant of the catch: the rejection escapes the handler and the unhandled
\* rejection ends the process.
handleDepositErrorUncaught(i) ==
  /\ Alive /\ handlers[i].pc = "findOneAndUpdate"
  /\ Exit(1)
  /\ UNCHANGED <<main, shutdown>>

\* The store call rejects; the catch logs and the handler returns.
handleDepositError(i) ==
  /\ Alive /\ handlers[i].pc = "findOneAndUpdate"
  /\ Finish(i, "StoreError")
  /\ UNCHANGED <<store, main, listeners, shutdown, exitCode>>

\* ---------------------------------------------- handleWithdrawalProcessed
\* findOne resolves and the handler runs on to its return or to user.save().
handleWithdrawalFind(i) ==
  /\ Alive /\ handlers[i].pc = "findOne"
  /\ LET user == FindOne(store, Key(i))
         currentBalance == BigNumberFrom(user)
         withdrawalAmount == handlers[i].amount
     IN  IF UserNotFound(user)
           THEN Finish(i, "AccountNotFound")
         ELSE IF user = Null
           \* user.balance of null throws a TypeError, which the catch logs
           THEN Finish(i, "TypeError")
         ELSE IF InsufficientBalance(currentBalance, withdrawalAmount)
           THEN Finish(i, "InsufficientBalance")
         ELSE handlers' = [handlers EXCEPT
                ![i].pc = "save", ![i].read = user,
                ![i].write = BigNumberToString(
                               NewBalance(currentBalance, withdrawalAmount))]
  /\ UNCHANGED <<store, main, listeners, shutdown, exitCode>>

handleWithdrawalFindError(i) ==
  /\ Alive /\ handlers[i].pc = "findOne"
  /\ Finish(i, "StoreError")
  /\ UNCHANGED <<store, main, listeners, shutdown, exitCode>>

handleWithdrawalSave(i) ==
  /\ Alive /\ handlers[i].pc = "save"
  /\ store' = SaveUser(store, Key(i), handlers[i].write)
  /\ Finish(i, "Applied")
  /\ UNCHANGED <<main, listeners, shutdown, exitCode>>

handleWithdrawalSaveError(i) ==
  /\ Alive /\ handlers[i].pc = "save"
  /\ Finish(i, "StoreError")
  /\ UNCHANGED <<store, main, listeners, shutdown, exitCode>>

\* ------------------------------------------------------------------- Next
Next ==
  \/ ConnectMongoDBOk
  \/ ConnectMongoDBFails
  \/ ConnectMongoDBUnbound
  \/ setupEventListeners
  \/ GetNetworkFails
  \/ Sigint
  \/ SigintExit
  \/ Deliver
  \/ Redeliver
  \/ \E i \in HandlerIds : handleDepositUpdate(i)
  \/ \E i \in HandlerIds : handleDepositError(i)
  \/ \E i \in HandlerIds : handleWithdrawalFind(i)
  \/ \E i \in HandlerIds : handleWithdrawalFindError(i)
  \/ \E i \in HandlerIds : handleWithdrawalSave(i)
  \/ \E i \in HandlerIds : handleWithdrawalSaveError(i)

Spec == Init /\ [][Next]_vars

\* ================================================================= claims
\* Helpers of the statements below.
AllDone == \A i \in HandlerIds : ~InFlight(i)

HasRecord(a) == store[a] # Null

Records == {a \in DOMAIN store : HasRecord(a)}

Balance(a) == BigNumberFrom(store[a])

OthersIdle(i) ==
  \A j \in HandlerIds \ {i} : Key(j) = Key(i) => ~InFlight(j)

\* Handler i is stepped by the store completing its pending operation.
StoreAnswers(i) ==
  /\ exitCode' = -1
  /\ InFlight(i)
  /\ handlers'[i] # handlers[i]

Applies(i) == StoreAnswers(i) /\ handlers'[i].outcome = "Applied"

\* Applied deposits minus applied withdrawals of account a among the first n
\* handlers.
RECURSIVE NetApplied(_, _)
NetApplied(a, n) ==
  IF n = 0 THEN 0
  ELSE NetApplied(a, n - 1) +
       (IF Key(n) = a /\ handlers[n].outcome = "Applied"
          THEN (IF handlers[n].kind = "Deposit"
                  THEN handlers[n].amount ELSE 0 - handlers[n].amount)
          ELSE 0)

\* The store after the first n handlers, all deposits, ran one after another
\* in delivery order, each to its end before the next starts.
RECURSIVE SerialDeposits(_)
SerialDeposits(n) ==
  IF n = 0 THEN [a \in DOMAIN store |-> Null]
  ELSE FindOneAndUpdate(SerialDeposits(n - 1), Key(n),
                        parseWeiToString(handlers[n].amount))

\* C1: every stored balance is >= 0 in every reachable state, whatever the
\* interleaving of the deposit and withdrawal handlers in flight.
C1_BalanceNonNegative ==
  \A a \in DOMAIN store : HasRecord(a) => Balance(a) >= 0

\* C1 witness: a withdrawal has been applied while another withdrawal of the
\* same account, which read the balance before that write, is still to save.
C1_Witness ==
  \E i, j \in HandlerIds :
    /\ i # j /\ Key(i) = Key(j)
    /\ handlers[i].kind = "WithdrawalProcessed"
    /\ handlers[i].outcome = "Applied"
    /\ handlers[j].pc = "save"
    /\ handlers[j].read # store[Key(j)]
    /\ Balance(Key(j)) < handlers[j].amount

\* C2: once all handlers have completed, the balance of every account is the
\* sum of its applied deposits minus the sum of its applied withdrawals, and
\* is >= 0.
C2_BalanceIsNetOfApplied ==
  (Alive /\ AllDone) =>
    \A a \in Accounts :
      HasRecord(a) =>
        /\ Balance(a) = NetApplied(a, Len(handlers))
        /\ Balance(a) >= 0

\* C3: a Deposit of amount a handled for an account whose record holds b,
\* with no other event of that account in flight, leaves b + a.
C3_DepositAddsToBalance ==
  [][\A i \in HandlerIds :
       (/\ handlers[i].kind = "Deposit"
        /\ Applies(i)
        /\ HasRecord(Key(i))
        /\ OthersIdle(i))
       => BigNumberFrom(store'[Key(i)]) = Balance(Key(i)) + handlers[i].amount
    ]_vars

\* C4: no two handlers of one account are both between their balance read
\* and the completion of their balance write.
C4_PerAccountMutualExclusion ==
  \A i, j \in HandlerIds :
    (i # j /\ Key(i) = Key(j)) =>
      ~(handlers[i].pc = "save" /\ handlers[j].pc = "save")

\* C5: N Deposit events of one account handled concurrently leave the
\* balance that handling them one after another in delivery order leaves.
C5_ConcurrentDepositsAsSerial ==
  (/\ Alive /\ AllDone /\ handlers # <<>>
   /\ \A i \in HandlerIds :
        /\ handlers[i].kind = "Deposit"
        /\ handlers[i].outcome = "Applied"
        /\ Key(i) = Key(1))
  => store[Key(1)] = SerialDeposits(Len(handlers))[Key(1)]

\* C6: applying a delivery whose eventId was already applied to the account
\* leaves the balance of the account unchanged.
C6_RedeliveryChangesNothing ==
  [][\A i \in HandlerIds :
       (/\ Applies(i)
        /\ \E j \in HandlerIds :
             /\ j # i
             /\ handlers[j].eventId = handlers[i].eventId
             /\ handlers[j].outcome = "Applied")
       => store'[Key(i)] = store[Key(i)]
    ]_vars

\* C7: a withdrawal whose amount exceeds the stored balance it finds is
\* rejected: the handler ends with InsufficientBalance at that step, the
\* store is not written, and the ended handler never acts again.
C7_InsufficientBalanceRejected ==
  [][\A i \in HandlerIds :
       /\ (/\ handlers[i].pc = "findOne"
           /\ StoreAnswers(i)
           /\ handlers'[i].outcome # "StoreError"
           /\ HasRecord(Key(i))
           /\ handlers[i].amount > Balance(Key(i)))
          => (/\ handlers'[i].pc = "done"
              /\ handlers'[i].outcome = "InsufficientBalance"
              /\ store' = store)
       /\ (handlers[i].outcome = "InsufficientBalance" /\ exitCode' = -1)
          => handlers'[i] = handlers[i]
    ]_vars

\* C7 witness: a withdrawal was rejected for insufficient balance and its
\* amount is above the balance the record holds.
C7_Witness ==
  \E i \in HandlerIds :
    /\ handlers[i].kind = "WithdrawalProcessed"
    /\ handlers[i].outcome = "InsufficientBalance"
    /\ HasRecord(Key(i))
    /\ handlers[i].amount > Balance(Key(i))

\* C8: a withdrawal for an account without a record is rejected with
\* AccountNotFound and the store has no record of the account afterwards.
C8_UnknownAccountRejected ==
  [][\A i \in HandlerIds :
       (/\ handlers[i].pc = "findOne"
        /\ StoreAnswers(i)
        /\ handlers'[i].outcome # "StoreError"
        /\ ~HasRecord(Key(i)))
       => (/\ handlers'[i].pc = "done"
           /\ handlers'[i].outcome = "AccountNotFound"
           /\ store' = store
           /\ store'[Key(i)] = Null)
    ]_vars

\* C8 witness: a withdrawal ended with AccountNotFound and the account has
\* no record.
C8_Witness ==
  \E i \in HandlerIds :
    /\ handlers[i].kind = "WithdrawalProcessed"
    /\ handlers[i].outcome = "AccountNotFound"
    /\ ~HasRecord(Key(i))

\* C9: a withdrawal of a from a stored balance b >= a (a = b included) is not
\* rejected, and with no other event of the account in flight between its
\* read and its write it leaves exactly b - a.
C9_WithdrawalSubtracts ==
  [][\A i \in HandlerIds :
       /\ (/\ handlers[i].pc = "findOne"
           /\ StoreAnswers(i)
           /\ handlers'[i].outcome # "StoreError"
           /\ HasRecord(Key(i))
           /\ handlers[i].amount <= Balance(Key(i)))
          => handlers'[i].pc = "save"
       /\ (/\ handlers[i].pc = "save"
           /\ Applies(i)
           /\ OthersIdle(i)
           /\ store[Key(i)] = handlers[i].read)
          => (/\ HasRecord(Key(i))
              /\ BigNumberFrom(store'[Key(i)]) = Balance(Key(i)) - handlers[i].amount)
    ]_vars

\* C9 witness: one deposit, then one withdrawal of the whole balance, both
\* applied: the record holds 0.
C9_Witness ==
  /\ Len(handlers) = 2
  /\ handlers[1].kind = "Deposit" /\ handlers[1].outcome = "Applied"
  /\ handlers[2].kind = "WithdrawalProcessed" /\ handlers[2].outcome = "Applied"
  /\ Key(1) = Key(2)
  /\ handlers[1].amount = handlers[2].amount
  /\ store[Key(2)] = <<"0">>

\* C10: a Deposit of amount a for an account without a record creates one
\* record, of that account, with balance a, and touches no other record.
C10_FirstDepositCreatesRecord ==
  [][\A i \in HandlerIds :
       (/\ handlers[i].kind = "Deposit"
        /\ Applies(i)
        /\ ~HasRecord(Key(i)))
       => (/\ store'[Key(i)] # Null
           /\ BigNumberFrom(store'[Key(i)]) = handlers[i].amount
           /\ \A a \in DOMAIN store : a # Key(i) => store'[a] = store[a]
           /\ {a \in DOMAIN store : store'[a] # Null} = Records \cup {Key(i)})
    ]_vars

\* C10 witness: the first deposit of an account was applied; the account has
\* the only record, holding the amount.
C10_Witness ==
  /\ Len(handlers) = 1
  /\ handlers[1].kind = "Deposit" /\ handlers[1].outcome = "Applied"
  /\ Records = {Key(1)}
  /\ Balance(Key(1)) = handlers[1].amount

\* The lower-case form of each address, written out.
CanonicalAccount(a) ==
  CASE a \in {"0xABC", "0xabc"} -> "0xabc"
    [] a = "0xdef" -> "0xdef"

\* C11: within one account the balance writes land in delivery order: when
\* the write of a handler lands, no handler of the same account that was
\* delivered after it has already written.
C11_WritesInDeliveryOrder ==
  [][\A i \in HandlerIds :
       Applies(i) =>
         \A j \in HandlerIds :
           (j > i /\ CanonicalAccount(handlers[j].user) =
                       CanonicalAccount(handlers[i].user))
           => handlers[j].outcome # "Applied"
    ]_vars

\* C12: an event whose store call fails is not dropped: when its handler ends
\* with the store error, a handler of the same event is pending (the retry or
\* the re-queued event).
C12_StoreErrorNotDropped ==
  [][\A i \in HandlerIds :
       (StoreAnswers(i) /\ handlers'[i].outcome = "StoreError")
       => \E j \in DOMAIN handlers' :
            /\ handlers'[j].eventId = handlers[i].eventId
            /\ handlers'[j].pc # "done"
    ]_vars

\* C13: after the termination signal no new event is accepted, and the
\* process exits with code 0 only when no handler is in flight.
C13_GracefulShutdown ==
  [][/\ (Len(handlers') > Len(handlers)) => shutdown = "idle"
     /\ (exitCode = -1 /\ exitCode' = 0) => AllDone
    ]_vars

StartFailed == main \in {"storeFailed", "networkFailed", "referenceError"}

\* C14: startBot ends without registering the listeners only when the store
\* connection or the network check failed; with both succeeding it registers
\* the listeners of both event kinds and the bot runs.
C14_StartReachesRunning ==
  /\ exitCode = 1 => main \in {"storeFailed", "networkFailed"}
  /\ (Alive /\ main = "running") => listeners = Kinds

\* C15: a start that failed ended the process with exit code 1, and as long
\* as startBot has not reached the running state no listener is registered,
\* no handler was started and no balance was written.
C15_FailedStartMutatesNothing ==
  /\ StartFailed => exitCode = 1
  /\ main # "running" =>
       /\ listeners = {}
       /\ handlers = <<>>
       /\ \A a \in DOMAIN store : store[a] = Null

\* C15 witness: the network check failed and the process has exited with
\* code 1, no listener registered.
C15_Witness ==
  /\ main = "networkFailed"
  /\ exitCode = 1
  /\ listeners = {}
  /\ \A a \in DOMAIN store : store[a] = Null

LowerCaseAddresses == {"0xabc", "0xdef"}

\* C16: every record is stored under a lower-case address, and an event
\* that was applied, or rejected against a balance, used the record of the
\* lower-case form of its address, whatever the case it was delivered in.
C16_AddressesLowerCased ==
  /\ Records \subseteq LowerCaseAddresses
  /\ \A i \in HandlerIds :
       handlers[i].outcome \in {"Applied", "InsufficientBalance"}
       => HasRecord(CanonicalAccount(handlers[i].user))

\* C16 witness: a deposit delivered for 0xABC and a withdrawal delivered for
\* 0xabc were both applied, and 0xabc is the only record.
C16_Witness ==
  \E i, j \in HandlerIds :
    /\ handlers[i].kind = "Deposit" /\ handlers[i].user = "0xABC"
    /\ handlers[i].outcome = "Applied"
    /\ handlers[j].kind = "WithdrawalProcessed" /\ handlers[j].user = "0xabc"
    /\ handlers[j].outcome = "Applied"
    /\ Records = {"0xabc"}

\* A store operation pending for handler j completes.
HandlerStep(j) ==
  \/ handleDepositUpdate(j)
  \/ handleWithdrawalFind(j)
  \/ handleWithdrawalSave(j)

\* C17: whatever a handler of account A does (applies, rejects, fails), the
\* record of every other account is unchanged by its steps, and no handler in
\* flight is ever blocked from taking its next step.
C17_FailuresIsolated ==
  [][/\ \A i \in HandlerIds :
          StoreAnswers(i) =>
            \A b \in DOMAIN store :
              b # CanonicalAccount(handlers[i].user) => store'[b] = store[b]
     /\ \A j \in HandlerIds :
          (Alive /\ InFlight(j)) => ENABLED HandlerStep(j)
    ]_vars

\* C17 witness: an event of one account was rejected or failed, and an event
\* of another account delivered after it was applied.
C17_Witness ==
  \E i, j \in HandlerIds :
    /\ i < j
    /\ CanonicalAccount(handlers[i].user) # CanonicalAccount(handlers[j].user)
    /\ handlers[i].outcome \in {"StoreError", "InsufficientBalance", "AccountNotFound"}
    /\ handlers[j].outcome = "Applied"
    /\ HasRecord(CanonicalAccount(handlers[j].user))

\* C18: a record comes into existence only by the step of a Deposit handler
\* of that account, and a record that exists exists in the next state.
C18_RecordLifecycle ==
  [][\A a \in DOMAIN store :
       /\ HasRecord(a) => store'[a] # Null
       /\ (~HasRecord(a) /\ store'[a] # Null) =>
            \E i \in HandlerIds :
              /\ handlers[i].kind = "Deposit"
              /\ Applies(i)
              /\ CanonicalAccount(handlers[i].user) = a
    ]_vars

\* C18 witness: an account emptied by a withdrawal still has its record: a
\* later withdrawal was rejected for insufficient balance, not as unknown.
C18_Witness ==
  \E i \in HandlerIds :
    /\ handlers[i].outcome = "InsufficientBalance"
    /\ HasRecord(CanonicalAccount(handlers[i].user))
    /\ Balance(CanonicalAccount(handlers[i].user)) = 0

\* C19: a store error ends the handler it occurred in and nothing else: the
\* store and the listeners are as before the failed call, and the process
\* exits only through SIGINT or a failed start.
C19_StoreErrorCaught ==
  [][/\ (exitCode = -1 /\ exitCode' # -1) =>
          (shutdown' = "closed" \/ main' \in {"storeFailed", "networkFailed",
                                              "referenceError"})
     /\ \A i \in HandlerIds :
          (StoreAnswers(i) /\ handlers'[i].outcome = "StoreError") =>
            /\ handlers'[i].pc = "done"
            /\ store' = store
            /\ listeners' = listeners
    ]_vars

\* C19 witness: the first event failed with a store error and the second
\* event, of the same account, was applied.
C19_Witness ==
  /\ Len(handlers) = 2
  /\ handlers[1].outcome = "StoreError"
  /\ handlers[2].outcome = "Applied"
  /\ Key(1) = Key(2)
  /\ HasRecord(Key(2))

\* C20: a Deposit handler ends with its one store operation; applied, that
\* operation leaves the account one record holding the amount of that
\* deposit.  So once deposits alone were handled for an account, its balance
\* is the amount of one of the applied deposits.
C20_LastUpsertWins ==
  /\ [][\A i \in HandlerIds :
          (handlers[i].kind = "Deposit" /\ StoreAnswers(i)) =>
            /\ handlers'[i].pc = "done"
            /\ handlers'[i].outcome = "Applied" =>
                 /\ BigNumberFrom(store'[CanonicalAccount(handlers[i].user)])
                      = handlers[i].amount
                 /\ {a \in DOMAIN store : store'[a] # Null}
                      = Records \cup {CanonicalAccount(handlers[i].user)}
       ]_vars
  /\ [](\A a \in LowerCaseAddresses :
          (/\ Alive /\ AllDone /\ HasRecord(a)
           /\ \A i \in HandlerIds :
                CanonicalAccount(handlers[i].user) = a
                => handlers[i].kind = "Deposit")
          => \E i \in HandlerIds :
               /\ CanonicalAccount(handlers[i].user) = a
               /\ handlers[i].outcome = "Applied"
               /\ Balance(a) = handlers[i].amount)

\* C20 witness: two deposits of different amounts for one account were both
\* applied, the first delivered executing last: its amount is the balance.
C20_Witness ==
  /\ Len(handlers) = 2
  /\ handlers[1].kind = "Deposit" /\ handlers[1].outcome = "Applied"
  /\ handlers[2].kind = "Deposit" /\ handlers[2].outcome = "Applied"
  /\ Key(1) = Key(2)
  /\ handlers[1].amount # handlers[2].amount
  /\ Balance(Key(1)) = handlers[1].amount
  /\ Records = {Key(1)}

====
